---- MODULE Spec2Model ----
\* The rate-limited batch inference driver of the regression-analysis scripts:
\* the Gemini script (part_001: retry driver with provider hints and jittered
\* backoff, fixed sleep after every entry) and the Anthropic script (part_002:
\* rate window gate, retry driver that resets the window, inter-request delay).
EXTENDS Integers, Sequences, FiniteSets, TLC

\* ------------------------------------------------------------------ bounds

\* Largest batch (pullRequestChangesSummary.length) explored.
MaxEntries == 3
\* Largest maxRetries argument explored when retryWithBackoff is called directly.
MaxRetriesArg == 3
\* Largest attempt number handed to calculateBackoffDelay on its own.
MaxBackoffAttempt == 8
\* Largest batch explored when a run is followed from its first fetch.
MaxRunEntries == 1
\* Largest batch explored when the run's inference calls are counted.
MaxCountedEntries == 2
\* Longest text handed to estimateTokens on its own.
MaxTextLen == 60
\* Longest ticket list handed to getJiraTicketsData on its own.
MaxTickets == 3
\* Commit-history pages that carry commits before the source runs dry, and the
\* most commits on one page.
MaxPages == 2
MaxPageSize == 2
\* Most historical changes in the entry handed to prompt assembly on its own.
MaxPastChanges == 2
\* Most changed files of the pull request in the study of the history fan-out.
MaxFiles == 11

\* ------------------------------------------------------- program constants

DelayBetweenRequests == 12000
DefaultMaxRetries == 3
BaseRetryDelay == 20000
SystemPromptTokens == 200
WindowMs == 60000
TokenCeiling == 15000
WaitBuffer == 3000
GeminiMaxRetries == 5
GeminiInterRequestSleep == 4000
RetryHintBuffer == 1000
BackoffBaseDelay == 1000
BackoffMaxDelay == 60000
BackoffFloor == 1000
TooManyRequests == 429

\* The two scripts that carry the retry driver.
Scripts == {"gemini", "anthropic"}

\* ------------------------------------------------------------- environment

\* Lengths of JSON.stringify(optimizedEntry): estimates 7000, 8000 and 16000.
PromptLens == {27199, 31200, 63200}

\* How long one inference call may take, in ms.
CallDurations == {1000, 48000}

\* Math.random() * 2 - 1, in hundredths: a draw of [-1, 1).
JitterDraws == {-100, 0, 98}

\* ------------------------------------------------------------ error values

\* A thrown value. code is error.error.code, status is error.status (0: absent);
\* message is error.message as a sequence of text chunks; retryDelay is the
\* retryDelay string of the RetryInfo detail of error.error.details, by character.
Err(code, status, hasMessage, message, hasRetryInfo, retryDelay) ==
  [isNullish |-> FALSE, code |-> code, status |-> status,
   hasMessage |-> hasMessage, message |-> message,
   hasRetryInfo |-> hasRetryInfo, retryDelay |-> retryDelay]

\* throw null / throw undefined
NullError ==
  [isNullish |-> TRUE, code |-> 0, status |-> 0, hasMessage |-> FALSE, message |-> <<>>,
   hasRetryInfo |-> FALSE, retryDelay |-> <<>>]

\* No error: the slot is empty.
NoError ==
  [isNullish |-> FALSE, code |-> -1, status |-> -1, hasMessage |-> FALSE, message |-> <<>>,
   hasRetryInfo |-> FALSE, retryDelay |-> <<>>]

\* new Error(message)
NewError(message) == Err(0, 0, TRUE, message, FALSE, <<>>)

\* The TypeError the engine raises when a property of undefined or null is read.
TypeErrorValue == NewError(<<"Cannot", "read", "properties", "of", "undefined">>)

PlainMessages == {<<"boom">>, <<"unable", "to", "verify", "certificate">>}

RateLimitMessages ==
  { <<"429", "Too", "Many", "Requests">>,
    <<"rate", "limit", "reached">>,
    <<"quota", "exceeded">>,
    <<"rate_limit", "_error">>,
    <<"exceeds", "30,000", "input", "tokens", "per", "minute">> }

RetryDelayHints == { <<"0", "s">>, <<"2", "s">>, <<"1", "2", "s">> }

\* The values the inference call may raise.
ErrorValues ==
  {NullError}
    \cup {Err(0, 0, FALSE, <<>>, FALSE, <<>>), Err(0, 500, FALSE, <<>>, FALSE, <<>>),
          Err(0, TooManyRequests, FALSE, <<>>, FALSE, <<>>)}
    \cup {Err(0, s, TRUE, m, FALSE, <<>>) : s \in {0, 500, TooManyRequests}, m \in PlainMessages}
    \cup {Err(0, 0, TRUE, m, FALSE, <<>>) : m \in RateLimitMessages}
    \cup {Err(TooManyRequests, 0, TRUE, <<"boom">>, FALSE, <<>>)}
    \cup {Err(TooManyRequests, 0, TRUE, <<"boom">>, TRUE, h) : h \in RetryDelayHints}
    \cup {Err(0, 0, TRUE, <<"boom">>, TRUE, <<"2", "s">>)}

\* String.prototype.includes on chunked text: marker occurs as a contiguous run.
Includes(message, marker) ==
  \E k \in 0..(Len(message) - Len(marker)) :
    SubSeq(message, k + 1, k + Len(marker)) = marker

\* error.message?.includes(marker)
MessageIncludes(e, marker) == e.hasMessage /\ Includes(e.message, marker)

\* ------------------------------------------------------------ pure helpers

Min(a, b) == IF a <= b THEN a ELSE b

Max(a, b) == IF a >= b THEN a ELSE b

\* Math.ceil(n / d) for n >= 0, d > 0
CeilDiv(n, d) == (n + d - 1) \div d

\* EstimateTokensGemini rounding down: Math.floor for Math.ceil.
EstimateTokensGemini_Floor(len) == len \div 4

\* part_001 estimateTokens: Math.ceil(text.length / 4)
EstimateTokensGemini(len) == CeilDiv(len, 4)

\* part_002 estimateTokens: 0 for an empty text, else Math.ceil(text.length * 0.25)
EstimateTokensAnthropic(len) == IF len = 0 THEN 0 ELSE CeilDiv(len * 25, 100)

\* part_002 estimatedInputTokens: the estimate plus 200 for the system prompt
EstimatedInputTokens(len) == EstimateTokensAnthropic(len) + SystemPromptTokens

Digits == {"0", "1", "2", "3", "4", "5", "6", "7", "8", "9"}

DigitValue(c) ==
  CASE c = "0" -> 0 [] c = "1" -> 1 [] c = "2" -> 2 [] c = "3" -> 3 [] c = "4" -> 4
    [] c = "5" -> 5 [] c = "6" -> 6 [] c = "7" -> 7 [] c = "8" -> 8 [] c = "9" -> 9

\* String.prototype.replace(c, ''): the first occurrence of c is removed.
RECURSIVE RemoveFirst(_, _)
RemoveFirst(chars, c) ==
  IF chars = <<>> THEN <<>>
  ELSE IF Head(chars) = c THEN Tail(chars)
  ELSE <<Head(chars)>> \o RemoveFirst(Tail(chars), c)

\* The value of the leading digits of chars, given the value acc read so far.
RECURSIVE ParseDigits(_, _)
ParseDigits(chars, acc) ==
  IF chars = <<>> \/ Head(chars) \notin Digits THEN acc
  ELSE ParseDigits(Tail(chars), acc * 10 + DigitValue(Head(chars)))

\* parseInt: NaN when the text does not start with a digit.
ParseInt(chars) ==
  IF chars = <<>> \/ Head(chars) \notin Digits
    THEN [nan |-> TRUE, val |-> 0]
    ELSE [nan |-> FALSE, val |-> ParseDigits(chars, 0)]

\* part_001 extractRetryDelay: null without a RetryInfo detail carrying a
\* non-empty retryDelay, else parseInt(retryDelay.replace('s', '')) * 1000.
ExtractRetryDelay(e) ==
  IF e.isNullish \/ ~e.hasRetryInfo \/ e.retryDelay = <<>>
    THEN [isNull |-> TRUE, nan |-> FALSE, ms |-> 0]
    ELSE LET seconds == ParseInt(RemoveFirst(e.retryDelay, "s"))
         IN  [isNull |-> FALSE, nan |-> seconds.nan, ms |-> seconds.val * 1000]

\* if (apiRetryDelay): null, NaN and 0 are falsy.
Truthy(d) == ~d.isNull /\ ~d.nan /\ d.ms # 0

\* const exponentialDelay = Math.min(baseDelay * Math.pow(2, attempt), maxDelay),
\* with the default baseDelay and maxDelay: the delay before jitter.
ExponentialDelay(attempt) == Min(BackoffBaseDelay * 2 ^ attempt, BackoffMaxDelay)

\* const jitter = exponentialDelay * 0.25 * (Math.random() * 2 - 1), the draw
\* given in hundredths.
Jitter(exponentialDelay, draw) == (exponentialDelay * 25 * draw) \div 10000

\* CalculateBackoffDelay without the Math.max(1000, ...) clamp.
CalculateBackoffDelay_NoFloor(attempt, jitter) ==
  ExponentialDelay(attempt) + Jitter(ExponentialDelay(attempt), jitter)

\* part_001 calculateBackoffDelay with the defaults; jitter is the draw of
\* Math.random() * 2 - 1 in hundredths.
CalculateBackoffDelay(attempt, jitter) ==
  LET exponentialDelay == ExponentialDelay(attempt)
  IN  Max(BackoffFloor, exponentialDelay + Jitter(exponentialDelay, jitter))

\* part_001 isRateLimit; every access is optional-chained, so null is "no".
IsRateLimitGemini(e) ==
  /\ ~e.isNullish
  /\ \/ e.code = TooManyRequests
     \/ e.status = TooManyRequests
     \/ MessageIncludes(e, <<"429">>)
     \/ MessageIncludes(e, <<"rate", "limit">>)
     \/ MessageIncludes(e, <<"quota">>)

\* part_002 isRateLimit, for a value whose properties can be read.
IsRateLimitAnthropic(e) ==
  \/ e.status = TooManyRequests
  \/ MessageIncludes(e, <<"rate_limit">>)
  \/ MessageIncludes(e, <<"30,000", "input", "tokens", "per", "minute">>)

\* `${error.message}` in a template: the text, or "undefined".
MessageText(e) == IF e.hasMessage THEN e.message ELSE <<"undefined">>

\* part_002: new Error(`Rate limit exceeded after ${maxRetries} retries: ${error.message}`)
RetriesExhaustedError(e, maxRetries) ==
  NewError(<<"Rate", "limit", "exceeded", "after", ToString(maxRetries), "retries:">>
             \o MessageText(e))

Throw(value) == [act |-> "throw", value |-> value, delay |-> 0, reset |-> FALSE]

SleepThenRetry(delay, reset) ==
  [act |-> "sleep", value |-> NoError, delay |-> delay, reset |-> reset]

\* DriverCatchGemini without "if (!isRateLimit) throw error": every failure is retried.
DriverCatchGemini_RetryAll(e, attempt, maxRetries, jitter) ==
  IF attempt = maxRetries THEN Throw(e)
  ELSE SleepThenRetry(CalculateBackoffDelay(attempt, jitter), FALSE)

\* DriverCatchGemini without "if (attempt === maxRetries) throw error": the last
\* permitted attempt sleeps too, and the loop ends at throw lastError.
DriverCatchGemini_NoExhaustionCheck(e, attempt, maxRetries, jitter) ==
  IF ~IsRateLimitGemini(e) THEN Throw(e)
  ELSE SleepThenRetry(CalculateBackoffDelay(attempt, jitter), FALSE)

\* part_001 retryWithBackoff, the catch block: what the driver does with the
\* value e raised by attempt number attempt.
DriverCatchGemini(e, attempt, maxRetries, jitter) ==
  IF ~IsRateLimitGemini(e) THEN Throw(e)
  ELSE IF attempt = maxRetries THEN Throw(e)
  ELSE LET apiRetryDelay == ExtractRetryDelay(e)
       IN  IF Truthy(apiRetryDelay)
             THEN SleepThenRetry(apiRetryDelay.ms + RetryHintBuffer, FALSE)
             ELSE SleepThenRetry(CalculateBackoffDelay(attempt, jitter), FALSE)

\* DriverCatchAnthropic without "if (attempt === maxRetries) throw": a
\* rate-limit failure is always followed by a sleep.
DriverCatchAnthropic_NeverGivesUp(e, attempt, maxRetries) ==
  IF e.isNullish THEN Throw(TypeErrorValue)
  ELSE IF IsRateLimitAnthropic(e) THEN SleepThenRetry(BaseRetryDelay * 2 ^ attempt, TRUE)
  ELSE Throw(e)

\* DriverCatchAnthropic giving up one attempt early: attempt >= maxRetries - 1.
DriverCatchAnthropic_GivesUpEarly(e, attempt, maxRetries) ==
  IF e.isNullish THEN Throw(TypeErrorValue)
  ELSE IF IsRateLimitAnthropic(e)
    THEN IF attempt >= maxRetries - 1
           THEN Throw(RetriesExhaustedError(e, maxRetries))
           ELSE SleepThenRetry(BaseRetryDelay * 2 ^ attempt, TRUE)
    ELSE Throw(e)

\* part_002 retryWithBackoff, the catch block. Reading error.status of null or
\* undefined raises a TypeError out of the catch block.
DriverCatchAnthropic(e, attempt, maxRetries) ==
  IF e.isNullish THEN Throw(TypeErrorValue)
  ELSE IF IsRateLimitAnthropic(e)
    THEN IF attempt = maxRetries
           THEN Throw(RetriesExhaustedError(e, maxRetries))
           ELSE SleepThenRetry(BaseRetryDelay * 2 ^ attempt, TRUE)
    ELSE Throw(e)

DriverCatch(s, e, attempt, maxRetries, jitter) ==
  IF s = "gemini" THEN DriverCatchGemini(e, attempt, maxRetries, jitter)
  ELSE DriverCatchAnthropic(e, attempt, maxRetries)

\* The driver's own classification of e, where it gets to make one.
IsRateLimit(s, e) ==
  IF s = "gemini" THEN IsRateLimitGemini(e) ELSE ~e.isNullish /\ IsRateLimitAnthropic(e)

\* part_001 main loop, the catch block: reading error.message of null or
\* undefined raises out of the handler; the guidance is printed for
\* error.error.code === 429.
OrchestratorCatchGemini(e) ==
  [crash |-> e.isNullish, guidance |-> ~e.isNullish /\ e.code = TooManyRequests]

\* part_002 main loop, the catch block: error.message.includes raises out of the
\* handler when there is no message.
OrchestratorCatchAnthropic(e) ==
  [crash |-> e.isNullish \/ ~e.hasMessage,
   guidance |-> /\ ~e.isNullish
                /\ e.hasMessage
                /\ \/ Includes(e.message, <<"rate_limit">>)
                   \/ Includes(e.message, <<"Rate", "limit", "exceeded">>)
                   \/ Includes(e.message, <<"30,000", "input", "tokens">>)]

OrchestratorCatch(s, e) ==
  IF s = "gemini" THEN OrchestratorCatchGemini(e) ELSE OrchestratorCatchAnthropic(e)

\* What rendering a response raises inside the try block when the response
\* carries no text: marked(undefined) in part_001, content[0].text in part_002.
RenderError == NewError(<<"input", "parameter", "is", "undefined">>)

\* ------------------------------------------------------------------- state

\* Time is kept relative to the start of the rate window: the tracker reads the
\* clock only as Date.now() - minuteStartTime, and every age past the window
\* length takes the same branch, so ages are kept up to WindowMs + 1.
VARIABLES
  script,                     \* which script runs
  caller,                     \* "main": the script's loop; "direct": retryWithBackoff called on its own
  numEntries,                 \* pullRequestChangesSummary.length
  i,                          \* the main loop's index, from 1
  pc,                         \* where the single thread of control is
  promptLen,                  \* the length of the current entry's prompt JSON
  windowAge,                  \* Date.now() - minuteStartTime, as of this instant
  nowAge,                     \* part_002 main loop: now - minuteStartTime
  estimatedInputTokens,       \* part_002 main loop: const estimatedInputTokens
  totalTokensUsedThisMinute,  \* part_002 module variable
  maxRetries,                 \* retryWithBackoff: parameter
  attempt,                    \* retryWithBackoff: loop variable
  sleepFor,                   \* the argument of the sleep in progress
  lastError,                  \* what the latest attempt raised
  hist,                       \* per attempt of the driver call in progress: what the call
                              \* returned, or "rl" / "other" for the class of what it raised
  invocations,                \* calls of fn / apiCall made by the driver call in progress
  driverSleeps,               \* sleeps started by the driver call in progress
  outcome,                    \* how the latest driver call ended
  results,                    \* entries whose response was rendered, in order
  attempted,                  \* entries whose inference call was made at least once
  dispatched,                 \* entries in the order of their first inference call
  inFlight,                   \* inference calls made and not yet settled
  guidance,                   \* the catch block printed the rate-limit guidance
  waited,                     \* the gate slept before admitting the current entry
  allFirstTry,                \* every inference call so far returned a response with text
  fetched,                    \* the input set: "none" yet, "complete", "partial" (a past
                              \* change without its diff) or "failed" (a fetch raised)
  disk,                       \* the snapshot file: "none", "stale" (an earlier run's) or "fresh"
  writeAttempts,              \* calls of fs.writeFileSync made by this run
  printedData,                \* the catch block of the write printed the snapshot's JSON
  analysisInput,              \* the data the prompts are built from: "none" yet, "memory"
                              \* (this run's), or what was read back: "fresh" or "stale"
  totalInvocations,           \* inference calls made by the run so far; -1 in runs
                              \* that keep no count
  jiraTickets,                \* getJiraTicketsData: the argument
  requested,                  \* the requests the collaborator call under study has issued
  received,                   \* getCommitsToFile: the pages received, in order
  result,                     \* what the collaborator call under study returned or raised
  page,                       \* getCommitsToFile: let page
  allCommits,                 \* getCommitsToFile: const allCommits
  changedFiles,               \* getPullRequestChangesSummary: changedFiles.length; the
                              \* files are 1..changedFiles in the order of the list
  chunkIndex,                 \* getPullRequestChangesSummary: chunks whose Promise.all is over
  fetching,                   \* getPullRequestChangesSummary: files whose history fetch is in flight
  slowFetches,                \* the files in flight whose responses take long
  pullRequestChangesSummary,  \* getPullRequestChangesSummary: the list being built
  entry,                      \* prompt assembly: the entry, as its pastChanges
  optimizedEntry              \* prompt assembly: the pastChanges of the prompt object

vars ==
  <<script, caller, numEntries, i, pc, promptLen, windowAge, nowAge, estimatedInputTokens,
    totalTokensUsedThisMinute, maxRetries, attempt, sleepFor, lastError,
    hist, invocations, driverSleeps, outcome, results, attempted, dispatched, inFlight,
    guidance, waited, allFirstTry, fetched, disk, writeAttempts, printedData, analysisInput,
    totalInvocations, jiraTickets, requested, received, result, page, allCommits,
    changedFiles, chunkIndex, fetching, slowFetches, pullRequestChangesSummary,
    entry, optimizedEntry>>

\* The locals of the collaborator calls and of the prompt assembly.
ticketVars == <<jiraTickets>>

requestVars == <<requested, received, result>>

commitVars == <<page, allCommits>>

fanOutVars == <<changedFiles, chunkIndex, fetching, slowFetches, pullRequestChangesSummary>>

promptVars == <<entry, optimizedEntry>>

helperVars == <<ticketVars, requestVars, commitVars, fanOutVars, promptVars>>

\* No call of getJiraTicketsData or getCommitsToFile is under study.
RequestsIdle ==
  /\ jiraTickets = <<>>
  /\ requested = <<>>
  /\ received = <<>>
  /\ result = "none"
  /\ page = 1
  /\ allCommits = <<>>

\* No call of getPullRequestChangesSummary is under study.
FanOutIdle ==
  /\ changedFiles = 0
  /\ chunkIndex = 0
  /\ fetching = {}
  /\ slowFetches = {}
  /\ pullRequestChangesSummary = <<>>

\* No prompt assembly is under study.
PromptIdle ==
  /\ entry = <<>>
  /\ optimizedEntry = <<>>

HelpersIdle == RequestsIdle /\ FanOutIdle /\ PromptIdle

\* What the part of a run before the main loop leaves behind.
startupVars == <<fetched, disk, writeAttempts, printedData, analysisInput>>

windowVars == <<totalTokensUsedThisMinute, windowAge>>

driverVars == <<maxRetries, attempt, hist, invocations, driverSleeps>>

logVars == <<results, attempted, dispatched>>

NoOutcome == [kind |-> "none", value |-> NoError, response |-> "none"]

Returned(response) == [kind |-> "returned", value |-> NoError, response |-> response]

Raised(value) == [kind |-> "raised", value |-> value, response |-> "none"]

\* A response either carries text to render or does not.
Responses == {"text", "malformed"}

\* The maxRetries each script's loop passes: 5 in part_001, the default in part_002.
CallSiteMaxRetries(s) == IF s = "gemini" THEN GeminiMaxRetries ELSE DefaultMaxRetries

\* The window's age once d more ms have passed. Only part_002 reads the clock.
Aged(s, age, d) == IF s = "anthropic" THEN Min(age + d, WindowMs + 1) ELSE age

\* Time the collaborators' fetches take between module load (let minuteStartTime
\* = Date.now()) and the main loop.
StartupDelays == {0, 60001}

Init ==
  /\ script \in Scripts
  /\ caller = "main"
  /\ numEntries \in 0..MaxEntries
  /\ i = 1
  /\ pc = "loop"
  /\ promptLen = 0
  /\ windowAge \in {Aged(script, 0, d) : d \in StartupDelays}
  /\ nowAge = 0
  /\ estimatedInputTokens = 0
  /\ totalTokensUsedThisMinute = 0
  /\ maxRetries = CallSiteMaxRetries(script)
  /\ attempt = 0
  /\ sleepFor = 0
  /\ lastError = NoError
  /\ hist = <<>>
  /\ invocations = 0
  /\ driverSleeps = 0
  /\ outcome = NoOutcome
  /\ results = <<>>
  /\ attempted = {}
  /\ dispatched = <<>>
  /\ inFlight = {}
  /\ guidance = FALSE
  /\ waited = FALSE
  /\ allFirstTry = TRUE
  /\ fetched = "complete"
  /\ disk = "fresh"
  /\ writeAttempts = 1
  /\ printedData = FALSE
  /\ analysisInput = "memory"
  /\ totalInvocations = -1
  /\ HelpersIdle

\* retryWithBackoff is entered: let attempt = 0.
DriverStarts ==
  /\ maxRetries' = CallSiteMaxRetries(script)
  /\ attempt' = 0
  /\ hist' = <<>>
  /\ invocations' = 0
  /\ driverSleeps' = 0
  /\ outcome' = NoOutcome

\* The for statement of the main loop and the prompt assembly of one entry; the
\* entry's prompt length is drawn when the loop reaches the entry.
LoopHead ==
  /\ pc = "loop"
  /\ lastError' = NoError
  /\ guidance' = FALSE
  /\ waited' = FALSE
  /\ sleepFor' = 0
  /\ IF i > numEntries
       THEN /\ pc' = "done"
            /\ outcome' = NoOutcome
            /\ UNCHANGED <<driverVars, nowAge, estimatedInputTokens, promptLen>>
       ELSE \E len \in PromptLens :
              /\ promptLen' = len
              /\ IF script = "gemini"
                   THEN /\ pc' = "invoke"
                        /\ DriverStarts
                        /\ UNCHANGED <<nowAge, estimatedInputTokens>>
                   ELSE /\ pc' = "rollover"
                        /\ estimatedInputTokens' = EstimatedInputTokens(len)
                        /\ nowAge' = windowAge
                        /\ outcome' = NoOutcome
                        /\ UNCHANGED driverVars
  /\ UNCHANGED <<script, caller, numEntries, i, windowVars, logVars, inFlight>>
  /\ UNCHANGED <<startupVars, allFirstTry>>
  /\ UNCHANGED helperVars
  /\ UNCHANGED totalInvocations

\* RolloverCheck starting the new window at the window's last millisecond: >= for >.
RolloverCheck_AtWindowEnd(age, tokens) ==
  IF age >= WindowMs
    THEN [tokens |-> 0, age |-> 0]
    ELSE [tokens |-> tokens, age |-> age]

\* RolloverCheck without the reset: the window is never restarted here.
RolloverCheck_Skipped(age, tokens) == [tokens |-> tokens, age |-> age]

\* if (now - minuteStartTime > 60000) { totalTokensUsedThisMinute = 0;
\* minuteStartTime = now }: the counter and now - minuteStartTime after the check.
RolloverCheck(age, tokens) ==
  IF age > WindowMs
    THEN [tokens |-> 0, age |-> 0]
    ELSE [tokens |-> tokens, age |-> age]

\* part_002 lines 235-240
Rollover ==
  /\ pc = "rollover"
  /\ LET w == RolloverCheck(nowAge, totalTokensUsedThisMinute)
     IN  /\ totalTokensUsedThisMinute' = w.tokens
         /\ nowAge' = w.age
         /\ windowAge' = w.age
  /\ pc' = "ceiling"
  /\ UNCHANGED <<script, caller, numEntries, i, promptLen, estimatedInputTokens, driverVars,
                 sleepFor, lastError, outcome, logVars, inFlight, guidance, waited>>
  /\ UNCHANGED <<startupVars, allFirstTry>>
  /\ UNCHANGED helperVars
  /\ UNCHANGED totalInvocations

\* MustWait refusing a request that lands on the ceiling: >= for >.
MustWait_AtCeiling(tokens, t) == tokens + t >= TokenCeiling

\* MustWait looking at the request alone, not at what the window already counts.
MustWait_OnlyOversized(tokens, t) == t > TokenCeiling

\* if (totalTokensUsedThisMinute + estimatedInputTokens > 15000)
MustWait(tokens, t) == tokens + t > TokenCeiling

\* const waitTime = 60000 - (now - minuteStartTime) + 3000
WaitTime(age) == WindowMs - age + WaitBuffer

\* part_002 lines 242-252: the request is admitted, or the sleep starts.
CeilingCheck ==
  /\ pc = "ceiling"
  /\ IF MustWait(totalTokensUsedThisMinute, estimatedInputTokens)
       THEN /\ pc' = "gateSleep"
            /\ sleepFor' = WaitTime(nowAge)
            /\ waited' = TRUE
            /\ UNCHANGED <<totalTokensUsedThisMinute, driverVars, outcome>>
       ELSE /\ pc' = "invoke"
            /\ totalTokensUsedThisMinute' = totalTokensUsedThisMinute + estimatedInputTokens
            /\ DriverStarts
            /\ UNCHANGED <<sleepFor, waited>>
  /\ UNCHANGED <<script, caller, numEntries, i, promptLen, windowAge, nowAge,
                 estimatedInputTokens, lastError, logVars, inFlight, guidance>>
  /\ UNCHANGED <<startupVars, allFirstTry>>
  /\ UNCHANGED helperVars
  /\ UNCHANGED totalInvocations

\* WindowAfterWait without "minuteStartTime = Date.now()": the old window goes on.
WindowAfterWait_StaleStart(t, wokeAge) == [tokens |-> 0 + t, age |-> wokeAge]

\* The window after the gate's sleep, at age wokeAge: totalTokensUsedThisMinute
\* = 0 and minuteStartTime = Date.now() (lines 247-248), then
\* totalTokensUsedThisMinute += estimatedInputTokens (line 251).
WindowAfterWait(t, wokeAge) == [tokens |-> 0 + t, age |-> 0]

\* AfterGateWait for a gate that tests the ceiling again after the wait
\* (while for if).
AfterGateWait_Rechecks(t) == IF MustWait(0, t) THEN "gateSleep" ELSE "invoke"

\* Where the gate goes after its sleep: the if statement is over, the request of
\* size t is counted and the driver is called.
AfterGateWait(t) == "invoke"

\* part_002 lines 246-252: the gate's sleep ends; a timer fires once its delay has passed.
GateWake ==
  /\ pc = "gateSleep"
  /\ LET w == WindowAfterWait(estimatedInputTokens, Aged(script, windowAge, sleepFor))
     IN  /\ totalTokensUsedThisMinute' = w.tokens
         /\ windowAge' = w.age
  /\ pc' = AfterGateWait(estimatedInputTokens)
  /\ sleepFor' = 0
  /\ DriverStarts
  /\ UNCHANGED <<script, caller, numEntries, i, promptLen, nowAge, estimatedInputTokens,
                 lastError, logVars, inFlight, guidance, waited>>
  /\ UNCHANGED <<startupVars, allFirstTry>>
  /\ UNCHANGED helperVars
  /\ UNCHANGED totalInvocations

\* The entry a call belongs to; 0 when the driver is called on its own.
CurrentEntry == IF caller = "main" THEN i ELSE 0

\* for (...; attempt <= maxRetries; ...) { try { await fn() ...: the call is made.
Invoke ==
  /\ pc = "invoke"
  /\ attempt <= maxRetries
  /\ pc' = "inflight"
  /\ invocations' = invocations + 1
  /\ inFlight' = inFlight \cup {CurrentEntry}
  /\ attempted' = attempted \cup {CurrentEntry}
  /\ dispatched' = IF CurrentEntry \in attempted THEN dispatched
                   ELSE Append(dispatched, CurrentEntry)
  /\ lastError' = NoError
  /\ UNCHANGED <<script, caller, numEntries, i, promptLen, nowAge, estimatedInputTokens,
                 windowVars, maxRetries, attempt, sleepFor, hist, driverSleeps, outcome,
                 results, guidance, waited>>
  /\ UNCHANGED <<startupVars, allFirstTry>>
  /\ UNCHANGED helperVars
  /\ totalInvocations' = IF totalInvocations < 0 THEN totalInvocations
                       ELSE totalInvocations + 1

\* How the driver call ends, or NoOutcome while it goes on: r is what the call
\* returned ("text", "malformed") or "error" with the value e it raised.
DriverOutcome(s, r, e, att, mr, jitter) ==
  IF r # "error" THEN Returned(r)
  ELSE LET d == DriverCatch(s, e, att, mr, jitter)
       IN  IF d.act = "throw" THEN Raised(d.value) ELSE NoOutcome

\* What reaches the catch block of the main loop: the value the driver raised, or
\* what rendering the response raised inside the try block; NoError if nothing.
CaughtByLoop(o) ==
  IF o.kind = "raised" THEN o.value
  ELSE IF o.response = "malformed" THEN RenderError
  ELSE NoError

\* AfterAwait for a loop that goes on without awaiting the call.
AfterAwait_NotAwaited(flying, k) == flying

\* The calls in flight once the awaited call of entry k has settled.
AfterAwait(flying, k) == flying \ {k}

\* NextIndex stepping over an entry.
NextIndex_SkipsOne(k) == k + 2

\* The index of the entry after entry k.
NextIndex(k) == k + 1

\* Where the main loop goes once the driver call of entry k of n has ended with o:
\* part_001 sleeps 4000 ms after every entry; part_002 sleeps
\* delayBetweenRequests inside the try block, unless the entry is the last.
AfterEntry(s, o, k, n) ==
  LET caught == CaughtByLoop(o)
  IN  IF caught # NoError /\ OrchestratorCatch(s, caught).crash THEN "crashed"
      ELSE IF s = "gemini" THEN "interSleep"
      ELSE IF caught = NoError /\ k < n THEN "interSleep"
      ELSE "loop"

\* The inter-request sleep of each script.
InterRequestDelay(s) == IF s = "gemini" THEN GeminiInterRequestSleep ELSE DelayBetweenRequests

\* The window once the catch block of retryWithBackoff has decided, at age age:
\* part_002 lines 92-93 reset it before the sleep.
WindowAfterCatch(decision, tokens, age) ==
  IF decision.act = "sleep" /\ decision.reset
    THEN [tokens |-> 0, age |-> 0]
    ELSE [tokens |-> tokens, age |-> age]

\* The awaited call settles: the rest of the try block or the catch block of
\* retryWithBackoff, and, when the driver ends, the main loop up to its next await.
Settle ==
  /\ pc = "inflight"
  /\ \E d \in CallDurations, r \in Responses \cup {"error"}, e \in ErrorValues,
        jitter \in JitterDraws :
       LET raisedValue == IF r = "error" THEN e ELSE NoError
           decision == IF r = "error"
                         THEN DriverCatch(script, e, attempt, maxRetries, jitter)
                         ELSE Throw(NoError)
           o == DriverOutcome(script, r, e, attempt, maxRetries, jitter)
           ended == o.kind # "none"
           caught == CaughtByLoop(o)
           next == IF caller = "direct" THEN "done"
                   ELSE AfterEntry(script, o, i, numEntries)
           w == WindowAfterCatch(decision, totalTokensUsedThisMinute,
                                 Aged(script, windowAge, d))
       IN  /\ r # "error" => (e = NullError /\ jitter = 0)
           /\ lastError' = raisedValue
           /\ hist' = Append(hist, IF r # "error" THEN r
                                   ELSE IF IsRateLimit(script, e) THEN "rl" ELSE "other")
           /\ inFlight' = AfterAwait(inFlight, CurrentEntry)
           /\ allFirstTry' = (allFirstTry /\ r = "text")
           /\ outcome' = o
           /\ totalTokensUsedThisMinute' = w.tokens
           /\ windowAge' = w.age
           /\ IF ended
                THEN /\ pc' = next
                     /\ sleepFor' = IF next = "interSleep" THEN InterRequestDelay(script) ELSE 0
                     /\ i' = IF next = "loop" THEN NextIndex(i) ELSE i
                     /\ results' = IF caller = "main" /\ caught = NoError
                                     THEN Append(results, i) ELSE results
                     /\ guidance' = (caller = "main" /\ caught # NoError
                                       /\ OrchestratorCatch(script, caught).guidance)
                     /\ UNCHANGED driverSleeps
                ELSE /\ pc' = "retrySleep"
                     /\ sleepFor' = decision.delay
                     /\ driverSleeps' = driverSleeps + 1
                     /\ UNCHANGED <<i, results, guidance>>
  /\ UNCHANGED <<script, caller, numEntries, promptLen, nowAge, estimatedInputTokens,
                 maxRetries, attempt, invocations, attempted, dispatched, waited,
                 startupVars>>
  /\ UNCHANGED helperVars
  /\ UNCHANGED totalInvocations

\* The driver's sleep ends: continue / the end of the catch block, then attempt++.
RetryWake ==
  /\ pc = "retrySleep"
  /\ windowAge' = Aged(script, windowAge, sleepFor)
  /\ pc' = "invoke"
  /\ attempt' = attempt + 1
  /\ sleepFor' = 0
  /\ lastError' = NoError
  /\ UNCHANGED <<script, caller, numEntries, i, promptLen, nowAge, estimatedInputTokens,
                 totalTokensUsedThisMinute, maxRetries, hist, invocations, driverSleeps,
                 outcome, logVars, inFlight, guidance, waited>>
  /\ UNCHANGED <<startupVars, allFirstTry>>
  /\ UNCHANGED helperVars
  /\ UNCHANGED totalInvocations

\* The inter-request sleep ends: i++.
InterRequestWake ==
  /\ pc = "interSleep"
  /\ windowAge' = Aged(script, windowAge, sleepFor)
  /\ pc' = "loop"
  /\ i' = NextIndex(i)
  /\ sleepFor' = 0
  /\ UNCHANGED <<script, caller, numEntries, promptLen, nowAge, estimatedInputTokens,
                 totalTokensUsedThisMinute, driverVars, lastError, outcome, logVars,
                 inFlight, guidance, waited>>
  /\ UNCHANGED <<startupVars, allFirstTry>>
  /\ UNCHANGED helperVars
  /\ UNCHANGED totalInvocations

\* The for statement of retryWithBackoff ends without a call having returned or
\* the catch block having raised: part_001 goes on to throw lastError, part_002
\* falls off the end of the function and returns undefined.
DriverLoopExit ==
  /\ pc = "invoke"
  /\ attempt > maxRetries
  /\ caller = "direct"
  /\ pc' = "done"
  /\ outcome' = IF script = "gemini"
                  THEN Raised(IF lastError = NoError THEN NullError ELSE lastError)
                  ELSE Returned("undefined")
  /\ UNCHANGED <<script, caller, numEntries, i, promptLen, nowAge, estimatedInputTokens,
                 windowVars, driverVars, sleepFor, lastError, logVars, inFlight, guidance,
                 waited>>
  /\ UNCHANGED <<startupVars, allFirstTry>>
  /\ UNCHANGED helperVars
  /\ UNCHANGED totalInvocations

Next ==
  \/ LoopHead
  \/ Rollover
  \/ CeilingCheck
  \/ GateWake
  \/ Invoke
  \/ Settle
  \/ RetryWake
  \/ InterRequestWake

Spec == Init /\ [][Next]_vars

\* The script's single thread of control always takes its next step: a timer
\* that was set fires, and an awaited inference call returns or raises.
FairSpec == Spec /\ WF_vars(Next)

\* The main loop is reached with an empty count of inference calls.
CountedInit ==
  /\ script \in Scripts
  /\ caller = "main"
  /\ numEntries \in 0..MaxCountedEntries
  /\ i = 1
  /\ pc = "loop"
  /\ promptLen = 0
  /\ windowAge \in {Aged(script, 0, d) : d \in StartupDelays}
  /\ nowAge = 0
  /\ estimatedInputTokens = 0
  /\ totalTokensUsedThisMinute = 0
  /\ maxRetries = CallSiteMaxRetries(script)
  /\ attempt = 0
  /\ sleepFor = 0
  /\ lastError = NoError
  /\ hist = <<>>
  /\ invocations = 0
  /\ driverSleeps = 0
  /\ outcome = NoOutcome
  /\ results = <<>>
  /\ attempted = {}
  /\ dispatched = <<>>
  /\ inFlight = {}
  /\ guidance = FALSE
  /\ waited = FALSE
  /\ allFirstTry = TRUE
  /\ fetched = "complete"
  /\ disk = "fresh"
  /\ writeAttempts = 1
  /\ printedData = FALSE
  /\ analysisInput = "memory"
  /\ totalInvocations = 0
  /\ HelpersIdle

\* The loop with its inference calls counted, every step of the script's thread
\* of control being taken in the end.
CountedSpec == CountedInit /\ [][Next]_vars /\ WF_vars(Next)

\* retryWithBackoff called on its own, with any maxRetries, in a window that
\* already counts some tokens.
DriverInit ==
  /\ script \in Scripts
  /\ caller = "direct"
  /\ numEntries = 0
  /\ i = 1
  /\ pc = "invoke"
  /\ promptLen = 0
  /\ windowAge = 0
  /\ nowAge = 0
  /\ estimatedInputTokens = 0
  /\ totalTokensUsedThisMinute \in {0, 8000}
  /\ maxRetries \in -1..MaxRetriesArg
  /\ attempt = 0
  /\ sleepFor = 0
  /\ lastError = NoError
  /\ hist = <<>>
  /\ invocations = 0
  /\ driverSleeps = 0
  /\ outcome = NoOutcome
  /\ results = <<>>
  /\ attempted = {}
  /\ dispatched = <<>>
  /\ inFlight = {}
  /\ guidance = FALSE
  /\ waited = FALSE
  /\ allFirstTry = TRUE
  /\ fetched = "none"
  /\ disk = "none"
  /\ writeAttempts = 0
  /\ printedData = FALSE
  /\ analysisInput = "none"
  /\ totalInvocations = -1
  /\ HelpersIdle

DriverNext ==
  \/ Invoke
  \/ Settle
  \/ RetryWake
  \/ DriverLoopExit

DriverSpec == DriverInit /\ [][DriverNext]_vars

\* ------------------------------------------------- a run from its first fetch

\* The scripts whose top level gathers the input and writes the snapshot;
\* "cursor" is part_003, which reads the snapshot back and hands it to an agent.
RunScripts == Scripts \cup {"cursor"}

\* How a request to the source host or the ticket tracker ends: a 2xx response,
\* a non-2xx response with a JSON error body, or a rejected fetch.
FetchOutcomes == {"ok", "non2xx", "rejects"}

\* getPullRequestDetails and the caller's pullRequestDetails.title.match: an
\* error body has no title, so the caller raises a TypeError.
DetailsResult(o) == IF o = "ok" THEN "ok" ELSE "raises"

\* getPullRequestChangedFiles: data.filter is not a function on an error body.
ChangedFilesResult(o) == IF o = "ok" THEN "ok" ELSE "raises"

\* getCommitsToFile: commits.forEach is not a function on an error body.
CommitsResult(o) == IF o = "ok" THEN "ok" ELSE "raises"

\* getFileChangesInCommit: (data.files || []).filter(...)[0] is undefined on an
\* error body, and the caller stores diff: pastChange?.patch, that is undefined.
FileChangesResult(o) ==
  IF o = "ok" THEN "diff" ELSE IF o = "non2xx" THEN "undefined" ELSE "raises"

\* TicketsResult reading the body whatever the status: no "if (!response.ok)".
TicketsResult_IgnoresStatus(hasTickets, o) ==
  IF ~hasTickets \/ o # "rejects" THEN "ok" ELSE "raises"

\* getJiraTicketsData: no request for an empty list; throws if (!response.ok).
TicketsResult(hasTickets, o) == IF ~hasTickets \/ o = "ok" THEN "ok" ELSE "raises"

\* AfterFetch going on without the write.
AfterFetch_SkipsSnapshot(s) == IF s = "cursor" THEN "readSnapshot" ELSE "loop"

\* What follows the fetches at the script's top level: the snapshot write.
AfterFetch(s) == "snapshot"

\* A script is started: nothing fetched, nothing written; the snapshot file of
\* an earlier run of the same pull request may be on disk.
RunInit ==
  /\ script \in RunScripts
  /\ caller = "main"
  /\ numEntries = 0
  /\ i = 1
  /\ pc = "details"
  /\ promptLen = 0
  /\ windowAge = 0
  /\ nowAge = 0
  /\ estimatedInputTokens = 0
  /\ totalTokensUsedThisMinute = 0
  /\ maxRetries = CallSiteMaxRetries(script)
  /\ attempt = 0
  /\ sleepFor = 0
  /\ lastError = NoError
  /\ hist = <<>>
  /\ invocations = 0
  /\ driverSleeps = 0
  /\ outcome = NoOutcome
  /\ results = <<>>
  /\ attempted = {}
  /\ dispatched = <<>>
  /\ inFlight = {}
  /\ guidance = FALSE
  /\ waited = FALSE
  /\ allFirstTry = TRUE
  /\ fetched = "none"
  /\ disk \in {"none", "stale"}
  /\ writeAttempts = 0
  /\ printedData = FALSE
  /\ analysisInput = "none"
  /\ totalInvocations = -1
  /\ HelpersIdle

\* await getPullRequestDetails(...) and the title match that follows it.
FetchDetails ==
  /\ pc = "details"
  /\ \E o \in FetchOutcomes, d \in StartupDelays :
       /\ windowAge' = Aged(script, windowAge, d)
       /\ IF DetailsResult(o) = "ok"
            THEN pc' = "changes" /\ fetched' = fetched
            ELSE pc' = "crashed" /\ fetched' = "failed"
  /\ UNCHANGED <<script, caller, numEntries, i, promptLen, nowAge, estimatedInputTokens,
                 totalTokensUsedThisMinute, driverVars, sleepFor, lastError, outcome,
                 logVars, inFlight, guidance, waited, allFirstTry, disk, writeAttempts,
                 printedData, analysisInput>>
  /\ UNCHANGED helperVars
  /\ UNCHANGED totalInvocations

\* await getPullRequestChangesSummary(...): the changed files, and for each of
\* the n files kept its commit pages and the diff of each past commit.
FetchChanges ==
  /\ pc = "changes"
  /\ \E files \in FetchOutcomes, n \in 0..MaxRunEntries, commits \in FetchOutcomes,
        diffs \in FetchOutcomes :
       LET raises == \/ ChangedFilesResult(files) = "raises"
                     \/ n > 0 /\ CommitsResult(commits) = "raises"
                     \/ n > 0 /\ FileChangesResult(diffs) = "raises"
       IN  /\ (files # "ok" \/ n = 0) => (commits = "ok" /\ diffs = "ok")
           /\ files # "ok" => n = 0
           /\ IF raises
                THEN /\ pc' = "crashed"
                     /\ fetched' = "failed"
                     /\ numEntries' = numEntries
                ELSE /\ pc' = "tickets"
                     /\ fetched' = IF n > 0 /\ FileChangesResult(diffs) = "undefined"
                                     THEN "partial" ELSE "complete"
                     /\ numEntries' = n
  /\ UNCHANGED <<script, caller, i, promptLen, nowAge, estimatedInputTokens, windowVars,
                 driverVars, sleepFor, lastError, outcome, logVars, inFlight, guidance,
                 waited, allFirstTry, disk, writeAttempts, printedData, analysisInput>>
  /\ UNCHANGED helperVars
  /\ UNCHANGED totalInvocations

\* await getJiraTicketsData(allJiraTickets)
FetchTickets ==
  /\ pc = "tickets"
  /\ \E hasTickets \in BOOLEAN, o \in FetchOutcomes :
       /\ ~hasTickets => o = "ok"
       /\ IF TicketsResult(hasTickets, o) = "ok"
            THEN pc' = AfterFetch(script) /\ fetched' = fetched
            ELSE pc' = "crashed" /\ fetched' = "failed"
  /\ UNCHANGED <<script, caller, numEntries, i, promptLen, nowAge, estimatedInputTokens,
                 windowVars, driverVars, sleepFor, lastError, outcome, logVars, inFlight,
                 guidance, waited, allFirstTry, disk, writeAttempts, printedData,
                 analysisInput>>
  /\ UNCHANGED helperVars
  /\ UNCHANGED totalInvocations

\* try { fs.writeFileSync(outputPath, ...) } catch (error) { console.error(...);
\* console.log(JSON.stringify(regressionAnalysis, null, 2)) }. The loop scripts
\* go on with pullRequestChangesSummary as they hold it in memory.
WriteSnapshot ==
  /\ pc = "snapshot"
  /\ \E written \in BOOLEAN :
       /\ writeAttempts' = writeAttempts + 1
       /\ disk' = IF written THEN "fresh" ELSE disk
       /\ printedData' = ~written
  /\ IF script = "cursor"
       THEN pc' = "readSnapshot" /\ analysisInput' = analysisInput
       ELSE pc' = "loop" /\ analysisInput' = "memory"
  /\ UNCHANGED <<script, caller, numEntries, i, promptLen, nowAge, estimatedInputTokens,
                 windowVars, driverVars, sleepFor, lastError, outcome, logVars, inFlight,
                 guidance, waited, allFirstTry, fetched>>
  /\ UNCHANGED helperVars
  /\ UNCHANGED totalInvocations

\* part_003: regressionAnalysisContent = fs.readFileSync(outputPath, 'utf8'), or
\* process.exit(1) when the file cannot be read.
ReadSnapshot ==
  /\ pc = "readSnapshot"
  /\ IF disk = "none"
       THEN pc' = "exited" /\ analysisInput' = analysisInput
       ELSE pc' = "agent" /\ analysisInput' = disk
  /\ UNCHANGED <<script, caller, numEntries, i, promptLen, nowAge, estimatedInputTokens,
                 windowVars, driverVars, sleepFor, lastError, outcome, logVars, inFlight,
                 guidance, waited, allFirstTry, fetched, disk, writeAttempts, printedData>>
  /\ UNCHANGED helperVars
  /\ UNCHANGED totalInvocations

\* part_003: the models request, then the agent is created with the prompt built
\* around the file's content; a rejected models request ends the run before it.
AgentRequest ==
  /\ pc = "agent"
  /\ \E modelsListed \in BOOLEAN :
       IF modelsListed
         THEN pc' = "done" /\ attempted' = attempted \cup {0}
         ELSE pc' = "crashed" /\ attempted' = attempted
  /\ UNCHANGED <<script, caller, numEntries, i, promptLen, nowAge, estimatedInputTokens,
                 windowVars, driverVars, sleepFor, lastError, outcome, results, dispatched,
                 inFlight, guidance, waited, allFirstTry, startupVars>>
  /\ UNCHANGED helperVars
  /\ UNCHANGED totalInvocations

RunNext ==
  \/ FetchDetails
  \/ FetchChanges
  \/ FetchTickets
  \/ WriteSnapshot
  \/ ReadSnapshot
  \/ AgentRequest
  \/ LoopHead
  \/ Rollover
  \/ CeilingCheck
  \/ GateWake
  \/ Invoke
  \/ Settle
  \/ RetryWake
  \/ InterRequestWake

RunSpec == RunInit /\ [][RunNext]_vars

\* Everything outside the function under study: no run is in progress.
Quiescent ==
  /\ caller = "direct"
  /\ numEntries = 0
  /\ i = 1
  /\ promptLen = 0
  /\ windowAge = 0
  /\ nowAge = 0
  /\ estimatedInputTokens = 0
  /\ totalTokensUsedThisMinute = 0
  /\ lastError = NoError
  /\ hist = <<>>
  /\ invocations = 0
  /\ driverSleeps = 0
  /\ outcome = NoOutcome
  /\ results = <<>>
  /\ attempted = {}
  /\ dispatched = <<>>
  /\ inFlight = {}
  /\ guidance = FALSE
  /\ waited = FALSE
  /\ allFirstTry = TRUE
  /\ fetched = "none"
  /\ disk = "none"
  /\ writeAttempts = 0
  /\ printedData = FALSE
  /\ analysisInput = "none"

\* Every draw of Math.random() * 2 - 1 to the hundredth, the ends included.
AllJitterDraws == -100..100

\* calculateBackoffDelay(attempt) called on its own: attempt is the argument and
\* sleepFor the delay it returned.
BackoffInit ==
  /\ script = "gemini"
  /\ pc = "backoff"
  /\ maxRetries = MaxBackoffAttempt
  /\ attempt \in 0..MaxBackoffAttempt
  /\ sleepFor \in {CalculateBackoffDelay(attempt, j) : j \in AllJitterDraws}
  /\ Quiescent
  /\ totalInvocations = -1
  /\ HelpersIdle

\* calculateBackoffDelay is called again, for a later attempt.
BackoffCall ==
  /\ pc = "backoff"
  /\ \E a \in (attempt + 1)..MaxBackoffAttempt, j \in AllJitterDraws :
       /\ attempt' = a
       /\ sleepFor' = CalculateBackoffDelay(a, j)
  /\ UNCHANGED <<script, caller, numEntries, i, pc, promptLen, nowAge, estimatedInputTokens,
                 windowVars, maxRetries, hist, invocations, driverSleeps, lastError, outcome,
                 logVars, inFlight, guidance, waited, allFirstTry, startupVars>>
  /\ UNCHANGED helperVars
  /\ UNCHANGED totalInvocations

BackoffNext == BackoffCall

BackoffSpec == BackoffInit /\ [][BackoffNext]_vars

\* estimateTokens(text) of either script called on its own: promptLen is
\* text.length and estimatedInputTokens the value returned.
EstimateTokens(s, len) ==
  IF s = "gemini" THEN EstimateTokensGemini(len) ELSE EstimateTokensAnthropic(len)

EstimateInit ==
  /\ script \in Scripts
  /\ pc = "estimate"
  /\ maxRetries = CallSiteMaxRetries(script)
  /\ attempt = 0
  /\ sleepFor = 0
  /\ Quiescent
  /\ totalInvocations = -1
  /\ HelpersIdle

\* estimateTokens is called with a text of any length.
EstimateCall ==
  /\ pc = "estimate"
  /\ \E len \in 0..MaxTextLen :
       /\ promptLen' = len
       /\ estimatedInputTokens' = EstimateTokens(script, len)
  /\ UNCHANGED <<script, caller, numEntries, i, pc, windowAge, nowAge,
                 totalTokensUsedThisMinute, driverVars, sleepFor, lastError, outcome,
                 logVars, inFlight, guidance, waited, allFirstTry, startupVars,
                 totalInvocations, helperVars>>

EstimateNext == EstimateCall

EstimateSpec == EstimateInit /\ [][EstimateNext]_vars

\* --------------------------------------------------- getJiraTicketsData alone

TicketKeys == {"RNA-1", "RNA-2", "RNA-3"}

\* The lists of at most n ticket keys, repetitions included.
TicketLists(n) == UNION {[1..k -> TicketKeys] : k \in 0..n}

\* lodash uniq: the first occurrence of each element, in order.
RECURSIVE Uniq(_)
Uniq(list) ==
  IF list = <<>> THEN <<>>
  ELSE LET front == Uniq(SubSeq(list, 1, Len(list) - 1))
           last == list[Len(list)]
       IN  IF \E k \in 1..Len(front) : front[k] = last THEN front ELSE Append(front, last)

TicketsInit ==
  /\ script \in Scripts
  /\ pc = "jira:call"
  /\ maxRetries = CallSiteMaxRetries(script)
  /\ attempt = 0
  /\ sleepFor = 0
  /\ Quiescent
  /\ totalInvocations = -1
  /\ jiraTickets \in TicketLists(MaxTickets)
  /\ requested = <<>>
  /\ received = <<>>
  /\ result = "none"
  /\ page = 1
  /\ allCommits = <<>>
  /\ FanOutIdle
  /\ PromptIdle

\* getJiraTicketsData up to its first await: the early return for an empty list,
\* or the one search request for the keys, each once.
TicketsCall ==
  /\ pc = "jira:call"
  /\ IF Len(jiraTickets) = 0
       THEN /\ pc' = "jira:returned"
            /\ result' = "empty list"
            /\ requested' = requested
       ELSE /\ pc' = "jira:await"
            /\ result' = result
            /\ requested' = Append(requested, Uniq(jiraTickets))
  /\ UNCHANGED <<script, caller, numEntries, i, promptLen, nowAge, estimatedInputTokens,
                 windowVars, driverVars, sleepFor, lastError, outcome, logVars, inFlight,
                 guidance, waited, allFirstTry, startupVars, totalInvocations,
                 jiraTickets, received, commitVars, fanOutVars, promptVars>>

\* getJiraTicketsData after await fetch(...): throw on a response that is not
\* ok, else return data.issues.
TicketsResponse ==
  /\ pc = "jira:await"
  /\ \E o \in FetchOutcomes :
       /\ received' = Append(received, o)
       /\ IF TicketsResult(TRUE, o) = "ok"
            THEN pc' = "jira:returned" /\ result' = "issues"
            ELSE pc' = "jira:raised" /\ result' = "raised"
  /\ UNCHANGED <<script, caller, numEntries, i, promptLen, nowAge, estimatedInputTokens,
                 windowVars, driverVars, sleepFor, lastError, outcome, logVars, inFlight,
                 guidance, waited, allFirstTry, startupVars, totalInvocations,
                 jiraTickets, requested, commitVars, fanOutVars, promptVars>>

TicketsNext == TicketsCall \/ TicketsResponse

TicketsSpec == TicketsInit /\ [][TicketsNext]_vars

\* ----------------------------------------------------- getCommitsToFile alone

\* Commit messages as runs of text; the first run is what startsWith sees.
Messages ==
  { <<"Merge pull request", " #7 from feature">>,
    <<"RNA-1 fix rounding">>,
    <<"Revert ", "Merge pull request", " #7 from feature">> }

MergePrefixes ==
  { "Merge branch 'develop' into",
    "Merge branch 'LRB",
    "Merge remote-tracking branch 'origin/develop'",
    "Merge pull request" }

\* commit.message.startsWith(one of the four prefixes).
IsMergeCommit(message) == message # <<>> /\ message[1] \in MergePrefixes

\* commits.forEach(...): push every commit that is not a merge commit, in order.
RECURSIVE PushNonMerge(_, _)
PushNonMerge(list, commits) ==
  IF commits = <<>> THEN list
  ELSE PushNonMerge(IF IsMergeCommit(Head(commits)) THEN list ELSE Append(list, Head(commits)),
                    Tail(commits))

\* The exit of a loop that stops at the first page that is not full.
LastPage_ShortPage(commits) == Len(commits) < MaxPageSize

\* The loop exit: if (commits.length === 0) break.
LastPage(commits) == Len(commits) = 0

\* What one page of the commit history can hold: commits while the source has
\* any, then the empty page.
CommitPages(p) ==
  IF p <= MaxPages THEN UNION {[1..k -> Messages] : k \in 0..MaxPageSize}
  ELSE {<<>>}

PaginationInit ==
  /\ script \in Scripts
  /\ pc = "commits:fetch"
  /\ maxRetries = CallSiteMaxRetries(script)
  /\ attempt = 0
  /\ sleepFor = 0
  /\ Quiescent
  /\ totalInvocations = -1
  /\ HelpersIdle

\* One turn of while (true): fetch the page, push its non-merge commits,
\* page += 1, break on an empty page.
CommitsPage ==
  /\ pc = "commits:fetch"
  /\ \E commits \in CommitPages(page) :
       /\ requested' = Append(requested, page)
       /\ received' = Append(received, commits)
       /\ allCommits' = PushNonMerge(allCommits, commits)
       /\ page' = page + 1
       /\ pc' = IF LastPage(commits) THEN "commits:returned" ELSE "commits:fetch"
  /\ UNCHANGED <<script, caller, numEntries, i, promptLen, nowAge, estimatedInputTokens,
                 windowVars, driverVars, sleepFor, lastError, outcome, logVars, inFlight,
                 guidance, waited, allFirstTry, startupVars, totalInvocations,
                 jiraTickets, result, fanOutVars, promptVars>>

\* The fetch rejects, or the body is an error object and commits.forEach is not
\* a function: the call raises, page and allCommits as they were.
CommitsPageFails ==
  /\ pc = "commits:fetch"
  /\ \E o \in FetchOutcomes \ {"ok"} :
       /\ requested' = Append(requested, page)
       /\ result' = "raised"
       /\ pc' = "commits:raised"
  /\ UNCHANGED <<script, caller, numEntries, i, promptLen, nowAge, estimatedInputTokens,
                 windowVars, driverVars, sleepFor, lastError, outcome, logVars, inFlight,
                 guidance, waited, allFirstTry, startupVars, totalInvocations,
                 jiraTickets, received, commitVars, fanOutVars, promptVars>>

PaginationNext == CommitsPage \/ CommitsPageFails

PaginationSpec == PaginationInit /\ [][PaginationNext]_vars /\ WF_vars(PaginationNext)

\* ------------------------------------------------------- prompt assembly alone

\* A JavaScript value that is undefined or a string, the string as its characters.
Undefined == [kind |-> "undefined", chars |-> <<>>]
Str(chars) == [kind |-> "string", chars |-> chars]

\* value?.substring(0, n): undefined stays undefined, a string keeps its first
\* n characters.
OptionalSubstring(value, n) ==
  IF value.kind = "undefined" THEN value
  ELSE Str(SubSeq(value.chars, 1, IF Len(value.chars) < n THEN Len(value.chars) ELSE n))

\* RATE_LIMIT_CONFIG.maxCommitMessageLength of the anthropic script.
MaxCommitMessageLength == 80

\* The element the map callback builds for one historical change.
PromptChange_TruncatesDiff(s, change) ==
  [jiraTickets |-> change.jiraTickets,
   commitMessage |-> change.commitMessage,
   sha |-> OptionalSubstring(change.sha, 8),
   diff |-> OptionalSubstring(change.diff, MaxCommitMessageLength)]

PromptChange(s, change) ==
  [jiraTickets |-> change.jiraTickets,
   commitMessage |-> IF s = "anthropic"
                     THEN OptionalSubstring(change.commitMessage, MaxCommitMessageLength)
                     ELSE change.commitMessage,
   sha |-> OptionalSubstring(change.sha, 8),
   diff |-> change.diff]

\* entry.pastChanges.map(change => ({...})): a new list, one element per change.
PromptPastChanges(s, pastChanges) ==
  [k \in 1..Len(pastChanges) |-> PromptChange(s, pastChanges[k])]

ShaValues ==
  { Undefined,
    Str(<<"9", "f", "c", "2", "0">>),
    Str(<<"4", "a", "0", "b", "7", "e", "1", "d", "c", "3">>),
    Str(<<"4", "a", "0", "b", "7", "e", "1", "d", "5", "5">>) }

DiffValues == { Undefined, Str([k \in 1..90 |-> IF k % 2 = 0 THEN "+" ELSE "-"]) }

CommitMessageValues == { Str([k \in 1..81 |-> IF k = 81 THEN "!" ELSE "m"]) }

PastChangeValues ==
  [jiraTickets : {<<"RNA-1">>}, commitMessage : CommitMessageValues,
   sha : ShaValues, diff : DiffValues]

PromptInit ==
  /\ script \in Scripts
  /\ pc = "prompt:build"
  /\ maxRetries = CallSiteMaxRetries(script)
  /\ attempt = 0
  /\ sleepFor = 0
  /\ Quiescent
  /\ totalInvocations = -1
  /\ RequestsIdle
  /\ FanOutIdle
  /\ entry \in UNION {[1..k -> PastChangeValues] : k \in 0..MaxPastChanges}
  /\ optimizedEntry = <<>>

\* const promptEntry / optimizedEntry = {...}: reads entry, writes a new object.
\* changedFile and currentChanges are copied as they are.
BuildPrompt ==
  /\ pc = "prompt:build"
  /\ optimizedEntry' = PromptPastChanges(script, entry)
  /\ pc' = "prompt:built"
  /\ UNCHANGED <<script, caller, numEntries, i, promptLen, nowAge, estimatedInputTokens,
                 windowVars, driverVars, sleepFor, lastError, outcome, logVars, inFlight,
                 guidance, waited, allFirstTry, startupVars, totalInvocations,
                 ticketVars, requestVars, commitVars, fanOutVars, entry>>

PromptNext == BuildPrompt

PromptSpec == PromptInit /\ [][PromptNext]_vars

\* ------------------------------------------- getPullRequestChangesSummary

\* chunk(changedFiles, 10)
ChunkSize == 10

\* The changed files are numbered 1..changedFiles in the order
\* getPullRequestChangedFiles returned them; chunk k of lodash chunk holds the
\* k-th run of ChunkSize files.
ChunkFiles(k) ==
  {f \in 1..changedFiles : (k - 1) * ChunkSize < f /\ f <= k * ChunkSize}

\* What getCommitsToFile returns for file f: commits named by numbers, in the
\* order of the commit history.
CommitHistory(f) == [k \in 1..(f % 3) |-> 10 * f + k]

\* for (const pastCommit of pastCommits) { ...; entry.pastChanges.push({...}) }:
\* one past change per commit, awaited one after the other.
RECURSIVE PastChanges(_, _)
PastChanges(pastChanges, pastCommits) ==
  IF pastCommits = <<>> THEN pastChanges
  ELSE PastChanges(Append(pastChanges, [sha |-> Head(pastCommits)]), Tail(pastCommits))

\* The entry the callback of file f pushes.
SummaryEntry(f) ==
  [changedFile |-> f, pastChanges |-> PastChanges(<<>>, CommitHistory(f))]

\* A barrier that opens when the first callback of the chunk has ended.
ChunkSettled_AtFirst(flying, files) == flying # files

\* await Promise.all(chunk.map(...)) resolves when every callback has ended.
ChunkSettled(flying, files) == flying \cap files = {}

\* Which callback in flight ends next: the requests of a file are answered
\* quickly or slowly; among equals the one started first ends first.
NextToComplete(flying, slow) ==
  IF flying \ slow # {}
    THEN CHOOSE f \in flying \ slow : \A g \in flying \ slow : f <= g
    ELSE CHOOSE f \in flying : \A g \in flying : f <= g

\* The script is at await getPullRequestChangesSummary(...), the changed files
\* fetched and chunked.
FanOutInit ==
  /\ script \in Scripts
  /\ caller = "main"
  /\ numEntries = 0
  /\ i = 1
  /\ pc = "fanout:chunk"
  /\ promptLen = 0
  /\ windowAge = 0
  /\ nowAge = 0
  /\ estimatedInputTokens = 0
  /\ totalTokensUsedThisMinute = 0
  /\ maxRetries = CallSiteMaxRetries(script)
  /\ attempt = 0
  /\ sleepFor = 0
  /\ lastError = NoError
  /\ hist = <<>>
  /\ invocations = 0
  /\ driverSleeps = 0
  /\ outcome = NoOutcome
  /\ results = <<>>
  /\ attempted = {}
  /\ dispatched = <<>>
  /\ inFlight = {}
  /\ guidance = FALSE
  /\ waited = FALSE
  /\ allFirstTry = TRUE
  /\ fetched = "none"
  /\ disk = "none"
  /\ writeAttempts = 0
  /\ printedData = FALSE
  /\ analysisInput = "none"
  /\ totalInvocations = -1
  /\ RequestsIdle
  /\ PromptIdle
  /\ changedFiles \in 0..MaxFiles
  /\ chunkIndex = 0
  /\ fetching = {}
  /\ slowFetches = {}
  /\ pullRequestChangesSummary = <<>>

\* for (const chunk of chunkedChangedFiles) { await Promise.all(chunk.map(...
\* the callbacks of the next chunk all start, each with its first request.
StartChunk ==
  /\ pc = "fanout:chunk"
  /\ ChunkFiles(chunkIndex + 1) # {}
  /\ \E slow \in SUBSET ChunkFiles(chunkIndex + 1) :
       /\ chunkIndex' = chunkIndex + 1
       /\ fetching' = fetching \cup ChunkFiles(chunkIndex + 1)
       /\ slowFetches' = slow
  /\ pc' = "fanout:await"
  /\ UNCHANGED <<script, caller, numEntries, i, promptLen, nowAge, estimatedInputTokens,
                 windowVars, driverVars, sleepFor, lastError, outcome, logVars, inFlight,
                 guidance, waited, allFirstTry, startupVars, totalInvocations,
                 ticketVars, requestVars, commitVars, promptVars,
                 changedFiles, pullRequestChangesSummary>>

\* One callback runs to its end: commits fetched, past changes fetched one by
\* one, pullRequestChangesSummary.push(entry). The last one of the chunk lets
\* Promise.all resolve.
CompleteFetch ==
  /\ pc = "fanout:await"
  /\ fetching # {}
  /\ LET f == NextToComplete(fetching, slowFetches)
     IN  /\ pullRequestChangesSummary' = Append(pullRequestChangesSummary, SummaryEntry(f))
         /\ fetching' = fetching \ {f}
         /\ IF ChunkSettled(fetching \ {f}, ChunkFiles(chunkIndex))
              THEN pc' = "fanout:chunk" /\ slowFetches' = {}
              ELSE pc' = pc /\ slowFetches' = slowFetches
  /\ UNCHANGED <<script, caller, numEntries, i, promptLen, nowAge, estimatedInputTokens,
                 windowVars, driverVars, sleepFor, lastError, outcome, logVars, inFlight,
                 guidance, waited, allFirstTry, startupVars, totalInvocations,
                 ticketVars, requestVars, commitVars, promptVars,
                 changedFiles, chunkIndex>>

\* A request of a callback in flight rejects, or its commit page is an error
\* body: Promise.all rejects, and so does the top-level await of the script.
FetchFails ==
  /\ pc = "fanout:await"
  /\ fetching # {}
  /\ pc' = "crashed"
  /\ fetched' = "failed"
  /\ UNCHANGED <<script, caller, numEntries, i, promptLen, nowAge, estimatedInputTokens,
                 windowVars, driverVars, sleepFor, lastError, outcome, logVars, inFlight,
                 guidance, waited, allFirstTry, disk, writeAttempts, printedData,
                 analysisInput, totalInvocations, helperVars>>

\* return pullRequestChangesSummary, after the last chunk; the script holds the
\* list and goes on to the tickets.
ReturnSummary ==
  /\ pc = "fanout:chunk"
  /\ ChunkFiles(chunkIndex + 1) = {}
  /\ pc' = "tickets"
  /\ fetched' = "complete"
  /\ numEntries' = Len(pullRequestChangesSummary)
  /\ UNCHANGED <<script, caller, i, promptLen, nowAge, estimatedInputTokens,
                 windowVars, driverVars, sleepFor, lastError, outcome, logVars, inFlight,
                 guidance, waited, allFirstTry, disk, writeAttempts, printedData,
                 analysisInput, totalInvocations, helperVars>>

\* The script from the fan-out to its first inference call.
FanOutNext ==
  \/ StartChunk
  \/ CompleteFetch
  \/ FetchFails
  \/ ReturnSummary
  \/ FetchTickets
  \/ WriteSnapshot
  \/ LoopHead
  \/ Rollover
  \/ CeilingCheck
  \/ Invoke

FanOutSpec == FanOutInit /\ [][FanOutNext]_vars

\* ------------------------------------------------------------------ claims

\* The first n attempts of the driver call in progress all raised a rate-limit error.
AllRateLimited(n) == Len(hist) >= n /\ \A k \in 1..n : hist[k] = "rl"

\* The driver call has ended.
DriverEnded == outcome.kind # "none"

\* C1: for every batch and every pattern of per-entry outcomes, whatever the
\* call raises, the run does not raise, and once it is over every entry has had
\* its inference call attempted.
C1_RunNeverRaisesAndAttemptsAll ==
  /\ pc # "crashed"
  /\ pc = "done" => attempted = 1..numEntries

\* C2: for every maxRetries >= 0, once the call's first attempt has raised a
\* non-rate-limit error the driver has ended by raising, the call was invoked
\* exactly once, and no sleep was started.
C2_NonRateLimitFailsFast ==
  (maxRetries >= 0 /\ hist # <<>> /\ hist[1] = "other") =>
    /\ Len(hist) = 1
    /\ invocations = 1
    /\ driverSleeps = 0
    /\ sleepFor = 0
    /\ outcome.kind = "raised"
    /\ pc = "done"

C2_Witness ==
  /\ maxRetries >= 2
  /\ hist = <<"other">>
  /\ pc = "done"
  /\ lastError.status = 500

\* C3: for every maxRetries >= 0, while the call has only raised rate-limit
\* errors and fewer than maxRetries + 1 attempts are over, the driver goes on,
\* with one sleep per failed attempt; when the call then returns on attempt
\* maxRetries + 1 the driver returns what the call returned, after exactly
\* maxRetries + 1 invocations and maxRetries sleeps.
C3_SucceedsAfterMaxRetriesRateLimits ==
  (maxRetries >= 0 /\ Len(hist) <= maxRetries + 1 /\ AllRateLimited(Len(hist) - 1)) =>
    IF Len(hist) = maxRetries + 1 /\ hist[Len(hist)] \in Responses
      THEN /\ outcome = Returned(hist[Len(hist)])
           /\ invocations = maxRetries + 1
           /\ driverSleeps = maxRetries
           /\ pc = "done"
      ELSE AllRateLimited(Len(hist)) /\ Len(hist) <= maxRetries =>
             /\ ~DriverEnded
             /\ pc \in {"invoke", "inflight", "retrySleep"}
             /\ driverSleeps = Len(hist)
             /\ invocations = IF pc = "inflight" THEN Len(hist) + 1 ELSE Len(hist)

C3_Witness ==
  /\ maxRetries = 2
  /\ hist = <<"rl", "rl", "text">>
  /\ outcome.kind = "returned"
  /\ pc = "done"

\* C4: for every maxRetries >= 0, a call that raises a rate-limit error on each
\* of maxRetries + 1 attempts makes the driver raise after exactly
\* maxRetries + 1 invocations and maxRetries sleeps, with no sleep pending; the
\* call is never invoked more than maxRetries + 1 times.
C4_RaisesAfterRetriesExhausted ==
  maxRetries >= 0 =>
    /\ invocations <= maxRetries + 1
    /\ AllRateLimited(maxRetries + 1) =>
         /\ Len(hist) = maxRetries + 1
         /\ outcome.kind = "raised"
         /\ outcome.value # NoError
         /\ invocations = maxRetries + 1
         /\ driverSleeps = maxRetries
         /\ sleepFor = 0
         /\ pc = "done"

C4_Witness ==
  /\ maxRetries = 2
  /\ hist = <<"rl", "rl", "rl">>
  /\ outcome.kind = "raised"
  /\ pc = "done"

\* C5: entries are dispatched in input order and one at a time: at most one
\* inference call is in flight, it belongs to the entry the loop is at, nothing
\* is in flight while the loop sleeps or moves on, and the entries that have had
\* a call are 1, 2, ... in that order.
C5_SequentialInOrder ==
  /\ Cardinality(inFlight) <= 1
  /\ inFlight \subseteq {i}
  /\ (inFlight # {}) <=> (pc = "inflight")
  /\ \A k \in 1..Len(dispatched) : dispatched[k] = k
  /\ attempted = 1..Len(dispatched)
  /\ Len(dispatched) = IF \/ pc \in {"loop", "rollover", "ceiling", "gateSleep", "done"}
                           \/ (pc = "invoke" /\ invocations = 0)
                          THEN i - 1 ELSE i
  /\ Len(dispatched) <= numEntries

C5_Witness ==
  /\ dispatched = <<1, 2>>
  /\ inFlight = {2}
  /\ attempt = 1
  /\ results = <<>>

\* C6: at the ceiling check, which follows the rollover check, the request is
\* admitted without waiting exactly when totalTokensUsedThisMinute +
\* estimatedInputTokens does not exceed 15000, and waits otherwise; a request of
\* 8000 in a window that already counts 8000 waits; and a request within the
\* ceiling that reaches the gate more than 60000 ms into the window leaves the
\* rollover check with a counter that admits it.
C6_AdmittedIffUnderCeiling ==
  [][/\ pc = "ceiling" =>
          /\ (pc' = "invoke" /\ ~waited')
               <=> (totalTokensUsedThisMinute + estimatedInputTokens <= TokenCeiling)
          /\ (pc' = "gateSleep" /\ waited')
               <=> (totalTokensUsedThisMinute + estimatedInputTokens > TokenCeiling)
     /\ (pc = "ceiling" /\ totalTokensUsedThisMinute = 8000 /\ estimatedInputTokens = 8000)
          => pc' = "gateSleep"
     /\ (pc = "rollover" /\ nowAge > WindowMs /\ estimatedInputTokens <= TokenCeiling)
          => /\ pc' = "ceiling"
             /\ totalTokensUsedThisMinute' + estimatedInputTokens <= TokenCeiling
    ]_vars

C6_Witness ==
  /\ pc = "gateSleep"
  /\ i = 2
  /\ totalTokensUsedThisMinute = 8000
  /\ estimatedInputTokens = 8000
  /\ nowAge <= WindowMs

\* C7: while the gate sleeps, the sleep is 60000 - (now - minuteStartTime) + 3000
\* ms; when the request is admitted after the wait, the window has just been
\* restarted and its counter equals the request's estimate.
C7_WaitThenResetThenAdd ==
  /\ pc = "gateSleep" =>
       /\ waited
       /\ nowAge = windowAge
       /\ sleepFor = WindowMs - nowAge + WaitBuffer
  /\ (waited /\ pc = "invoke" /\ invocations = 0) =>
       /\ totalTokensUsedThisMinute = estimatedInputTokens
       /\ windowAge = 0

C7_Witness ==
  /\ waited
  /\ pc = "invoke"
  /\ invocations = 0
  /\ i = 2
  /\ totalTokensUsedThisMinute = 8000

\* C8: the rollover check sets the counter to 0 and the window start to now
\* when now - minuteStartTime > 60000, leaves both unchanged otherwise, and is
\* followed by the ceiling check.
C8_RolloverResetsOnlyPastWindow ==
  [][pc = "rollover" =>
       /\ pc' = "ceiling"
       /\ IF nowAge > WindowMs
            THEN /\ totalTokensUsedThisMinute' = 0
                 /\ windowAge' = 0
                 /\ nowAge' = 0
            ELSE /\ totalTokensUsedThisMinute' = totalTokensUsedThisMinute
                 /\ windowAge' = windowAge
                 /\ nowAge' = nowAge
    ]_vars

C8_Witness ==
  /\ pc = "ceiling"
  /\ i = 2
  /\ results = <<1>>
  /\ totalTokensUsedThisMinute = 0
  /\ nowAge = 0

\* C9: whenever an attempt of the part_002 driver has just raised a rate-limit
\* error, the final attempt included, the window is reset: the counter is 0 and
\* the window starts now.
C9_RateLimitErrorResetsWindow ==
  (script = "anthropic" /\ lastError # NoError /\ IsRateLimit(script, lastError)) =>
    /\ totalTokensUsedThisMinute = 0
    /\ windowAge = 0

\* The seconds a retryDelay hint states.
HintSeconds(e) == ParseInt(RemoveFirst(e.retryDelay, "s")).val

\* C10: while the part_001 driver sleeps before a retry, the sleep is
\* s * 1000 + 1000 ms when the error carried a retry-after hint of s seconds,
\* and a delay of the backoff calculator for this attempt only when it carried
\* no hint.
C10_HintPreferredOverBackoff ==
  (script = "gemini" /\ pc = "retrySleep") =>
    IF lastError.hasRetryInfo
      THEN sleepFor = HintSeconds(lastError) * 1000 + RetryHintBuffer
      ELSE sleepFor \in {CalculateBackoffDelay(attempt, j) : j \in JitterDraws}

\* C11: every delay calculateBackoffDelay returns, for every attempt and every
\* jitter draw of [-1, 1], is at least the 1000 ms floor; and the delay before
\* jitter, min(baseDelay * 2^attempt, maxDelay), of a later attempt is never
\* below that of an earlier one.
C11_BackoffFloorAndMonotone ==
  /\ [](pc = "backoff" => sleepFor >= BackoffFloor)
  /\ [][pc = "backoff" =>
          /\ attempt' > attempt
          /\ ExponentialDelay(attempt') >= ExponentialDelay(attempt)]_vars

C11_Witness ==
  /\ pc = "backoff"
  /\ attempt = 7
  /\ ExponentialDelay(attempt) = BackoffMaxDelay
  /\ sleepFor = 45000

\* C12: when the processing of an entry ends, by success or by failure, the
\* loop sleeps the fixed inter-request delay if another entry follows, and does
\* not sleep if the entry is the last.
C12_InterRequestDelayBetweenEntries ==
  [][(pc = "inflight" /\ caller = "main" /\ outcome'.kind # "none" /\ pc' # "crashed") =>
       IF i < numEntries
         THEN pc' = "interSleep" /\ sleepFor' = InterRequestDelay(script)
         ELSE pc' # "interSleep"]_vars

\* The entries whose processing is over.
EntriesOver == IF pc = "interSleep" THEN i ELSE i - 1

\* C13: as long as every inference call has returned a response on its first
\* attempt, the results recorded are exactly the entries processed so far, one
\* each and in input order, all of them once the run is done, and the driver
\* has started no backoff sleep.
C13_AllSuccessRun ==
  allFirstTry =>
    /\ results = [k \in 1..EntriesOver |-> k]
    /\ driverSleeps = 0
    /\ pc \notin {"retrySleep", "crashed"}
    /\ pc = "done" => Len(results) = numEntries

C13_Witness ==
  /\ allFirstTry
  /\ pc = "done"
  /\ numEntries = 2
  /\ results = <<1, 2>>

\* C14: when the driver raises, a non-rate-limit failure comes out as the very
\* value the call raised, and exhausted retries come out as a different value,
\* the retries-exhausted failure built around the last rate-limit failure.
C14_ErrorTaxonomy ==
  (maxRetries >= 0 /\ outcome.kind = "raised" /\ hist # <<>>) =>
    IF hist[Len(hist)] = "other"
      THEN outcome.value = lastError
      ELSE /\ outcome.value # lastError
           /\ outcome.value = RetriesExhaustedError(lastError, maxRetries)

\* C15: when the processing of an entry has ended in a failure, the loop has
\* printed the rate-limit guidance exactly when the driver classified the
\* failure of the last attempt as a rate-limit error.
C15_GuidanceIffRateLimitClass ==
  (caller = "main" /\ pc # "crashed" /\ DriverEnded /\ CaughtByLoop(outcome) # NoError) =>
    (guidance <=> hist[Len(hist)] = "rl")

\* C19: a run over an input sequence without entries ends in a failure, without
\* any inference call.
C19_EmptyBatchFails ==
  (numEntries = 0 /\ pc \in {"done", "crashed"}) =>
    /\ pc = "crashed"
    /\ attempted = {}

\* C20: an attempt that fails leaves the state the next entry is processed
\* with as a success would have left it: the window's counter and start are
\* untouched, and when the entry's processing ends with the failure the loop
\* goes on to the next entry with the pacing it applies after a success.
C20_FailureLeavesOtherEntriesAlone ==
  [][(pc = "inflight" /\ caller = "main" /\ lastError' # NoError /\ pc' # "crashed") =>
       /\ totalTokensUsedThisMinute' = totalTokensUsedThisMinute
       /\ windowAge' >= windowAge
       /\ outcome'.kind # "none" =>
            /\ pc' = AfterEntry(script, Returned("text"), i, numEntries)
            /\ sleepFor' = IF pc' = "interSleep" THEN InterRequestDelay(script) ELSE 0]_vars

\* C16: a run calls the snapshot write at most once, has called it before the
\* first inference call is issued and by the time it is done, a write that did
\* not fail has left this run's snapshot on disk, and no step other than the
\* write itself, whatever an inference call returns or raises, touches the file
\* or the count of writes.
C16_SnapshotWrittenOnceBeforeAnalysis ==
  /\ [](/\ writeAttempts <= 1
        /\ attempted # {} => writeAttempts = 1
        /\ pc = "done" => writeAttempts = 1
        /\ (writeAttempts = 1 /\ ~printedData) => disk = "fresh")
  /\ [][pc # "snapshot" => UNCHANGED <<disk, writeAttempts, printedData>>]_vars

C16_Witness ==
  /\ writeAttempts = 1
  /\ disk = "fresh"
  /\ pc = "loop"
  /\ i = 2
  /\ results = <<>>
  /\ attempted = {1}

\* C17: once the snapshot write has failed and the data was printed, the run
\* never exits and never analyses anything but the data it gathered itself.
C17_PersistenceFailureNonFatal ==
  printedData =>
    /\ pc # "exited"
    /\ analysisInput \in {"none", "memory"}

\* C18: a run in which a source-host or ticket-tracker request failed or
\* returned a non-2xx response has aborted, and no inference call is ever
\* issued on an input set that is incomplete.
C18_FetchFailureFatal ==
  /\ fetched = "failed" => pc = "crashed"
  /\ fetched \in {"failed", "partial"} => attempted = {}

\* C28: a request of size t that the gate admits leaves the counter at no more
\* than max(15000, t); and the counter exceeds 15000 in no state unless it is
\* the estimate of one request that by itself exceeds 15000.
C28_CounterWithinCeilingOrOneRequest ==
  /\ [](totalTokensUsedThisMinute > TokenCeiling =>
          totalTokensUsedThisMinute \in {EstimatedInputTokens(len) : len \in PromptLens})
  /\ [][(pc \in {"ceiling", "gateSleep"} /\ pc' = "invoke") =>
          /\ totalTokensUsedThisMinute' <= Max(TokenCeiling, estimatedInputTokens)
          /\ estimatedInputTokens <= TokenCeiling =>
               totalTokensUsedThisMinute' <= TokenCeiling]_vars

C28_Witness ==
  /\ pc = "invoke"
  /\ i = 2
  /\ ~waited
  /\ invocations = 0
  /\ totalTokensUsedThisMinute = TokenCeiling

\* C29: whenever the gate waits, the wait 60000 - (now - minuteStartTime) + 3000
\* is at least 3000 and at most 63000 ms, also when the retry driver has reset
\* the window before.
C29_WaitTimeBounded ==
  pc = "gateSleep" =>
    /\ sleepFor >= WaitBuffer
    /\ sleepFor <= WindowMs + WaitBuffer

C29_Witness ==
  /\ pc = "gateSleep"
  /\ i = 2
  /\ hist = <<"rl", "text">>
  /\ sleepFor < WindowMs + WaitBuffer
  /\ sleepFor > WaitBuffer

\* C30: a request that has reached the gate is eventually admitted, and after at
\* most one wait: the step that follows a wait admits the request, whatever its
\* size; a request whose own estimate exceeds 15000 waits, also in a window
\* that counts nothing, and is admitted when the wait is over.
C30_EventuallyAdmittedAfterOneWait ==
  /\ (pc \in {"rollover", "ceiling", "gateSleep"}) ~> (pc = "invoke" /\ invocations = 0)
  /\ [][/\ pc = "gateSleep" => pc' = "invoke"
        /\ (pc = "ceiling" /\ estimatedInputTokens > TokenCeiling) => pc' = "gateSleep"]_vars

C30_Witness ==
  /\ pc = "invoke"
  /\ invocations = 0
  /\ waited
  /\ i = 1
  /\ estimatedInputTokens > TokenCeiling
  /\ totalTokensUsedThisMinute = estimatedInputTokens

\* C23: for every batch and every pattern of returns and raises of the
\* inference call the run comes to an end; no entry has more than maxRetries + 1
\* invocations, and the run has at most numEntries * (maxRetries + 1) in all.
C23_RunTerminatesWithinBound ==
  /\ <>(pc \in {"done", "crashed"})
  /\ [](/\ invocations <= maxRetries + 1
        /\ totalInvocations <= numEntries * (maxRetries + 1)
        /\ totalInvocations <= (i - 1) * (maxRetries + 1) + invocations)

C23_Witness ==
  /\ pc = "done"
  /\ numEntries = 2
  /\ totalInvocations = numEntries * (maxRetries + 1)

\* C21: for a text of length n estimateTokens returns ceil(n / 4), the least k
\* with 4 * k >= n: never negative, positive for every non-empty text, and
\* never smaller for a longer text than for a shorter one.
C21_EstimateIsCeilOfQuarter ==
  /\ [](pc = "estimate" =>
          /\ 4 * estimatedInputTokens >= promptLen
          /\ 4 * (estimatedInputTokens - 1) < promptLen
          /\ estimatedInputTokens >= 0
          /\ promptLen > 0 => estimatedInputTokens > 0)
  /\ [][(pc = "estimate" /\ promptLen' >= promptLen) =>
          estimatedInputTokens' >= estimatedInputTokens]_vars

C21_Witness ==
  /\ pc = "estimate"
  /\ promptLen = 41
  /\ estimatedInputTokens = 11

\* C22: getJiraTicketsData called with an empty list returns an empty list in
\* its first step and never issues a request; called with a non-empty list it
\* issues exactly one request, and it raises exactly when the response to that
\* request is not ok.
C22_TicketsEmptyOrOneRequest ==
  /\ [](/\ Len(requested) <= 1
        /\ Len(jiraTickets) = 0 => requested = <<>> /\ result \in {"none", "empty list"}
        /\ (Len(jiraTickets) > 0 /\ pc # "jira:call") => Len(requested) = 1
        /\ pc = "jira:raised" <=> (received # <<>> /\ received[1] # "ok")
        /\ pc = "jira:returned" => (IF Len(jiraTickets) = 0 THEN result = "empty list"
                                     ELSE result = "issues" /\ received = <<"ok">>))
  /\ [][(pc = "jira:call" /\ Len(jiraTickets) = 0) =>
          (pc' = "jira:returned" /\ result' = "empty list" /\ requested' = <<>>)]_vars

C22_Witness ==
  /\ pc = "jira:raised"
  /\ jiraTickets = <<"RNA-2", "RNA-1", "RNA-2">>
  /\ requested = <<(<<"RNA-2", "RNA-1">>)>>
  /\ received = <<"non2xx">>

\* The commits of the pages in page order.
RECURSIVE C26_Concat(_)
C26_Concat(pages) ==
  IF pages = <<>> THEN <<>> ELSE Head(pages) \o C26_Concat(Tail(pages))

\* The commits of a list whose message starts with none of the merge prefixes.
C26_NonMerge(list) ==
  SelectSeq(list, LAMBDA c : ~(\E prefix \in MergePrefixes : c[1] = prefix))

\* C26: getCommitsToFile requests pages 1, 2, 3, ... in that order; every page
\* before the last one fetched held commits, and the call returns exactly when
\* a page comes back empty, asking for no page after it; the list it builds is
\* the concatenation in page order of the commits fetched whose message does
\* not start with a merge prefix; and with a source that runs dry the call ends.
C26_PagesInOrderUntilEmpty ==
  /\ [](/\ \A k \in 1..Len(requested) : requested[k] = k
        /\ page = Len(received) + 1
        /\ \A k \in 1..(Len(received) - 1) : received[k] # <<>>
        /\ allCommits = C26_NonMerge(C26_Concat(received))
        /\ pc = "commits:returned" <=>
             (received # <<>> /\ received[Len(received)] = <<>>)
        /\ pc = "commits:returned" => Len(requested) = Len(received))
  /\ [][pc = "commits:returned" => requested' = requested]_vars
  /\ <>(pc \in {"commits:returned", "commits:raised"})

C26_Witness ==
  /\ pc = "commits:returned"
  /\ requested = <<1, 2, 3>>
  /\ received[1] = << <<"Merge pull request", " #7 from feature">>, <<"RNA-1 fix rounding">> >>
  /\ received[2] = << <<"Revert ", "Merge pull request", " #7 from feature">> >>
  /\ allCommits = << <<"RNA-1 fix rounding">>,
                     <<"Revert ", "Merge pull request", " #7 from feature">> >>

\* The first eight characters of a revision, fewer if it has fewer.
C27_IsShortOf(short, full) ==
  /\ short.kind = full.kind
  /\ Len(short.chars) = (IF Len(full.chars) < 8 THEN Len(full.chars) ELSE 8)
  /\ \A k \in 1..Len(short.chars) : short.chars[k] = full.chars[k]

\* C27: building the prompt object leaves the entry and its pastChanges as they
\* were, and the object holds one change per element of pastChanges, in the same
\* order, each with the element's whole diff and with its sha cut to the first
\* eight characters.
C27_PromptReadOnlyAndLossless ==
  /\ [][entry' = entry]_vars
  /\ [](pc = "prompt:built" =>
          /\ Len(optimizedEntry) = Len(entry)
          /\ \A k \in 1..Len(entry) :
               /\ optimizedEntry[k].diff = entry[k].diff
               /\ optimizedEntry[k].jiraTickets = entry[k].jiraTickets
               /\ C27_IsShortOf(optimizedEntry[k].sha, entry[k].sha))

C27_Witness ==
  /\ pc = "prompt:built"
  /\ Len(entry) = 2
  /\ Len(entry[1].sha.chars) = 10
  /\ Len(optimizedEntry[1].sha.chars) = 8
  /\ entry[2].sha.chars = <<"4", "a", "0", "b", "7", "e", "1", "d", "5", "5">>
  /\ entry[1].sha # entry[2].sha
  /\ optimizedEntry[1].sha = optimizedEntry[2].sha
  /\ Len(optimizedEntry[2].diff.chars) = 90

\* The chunk a changed file belongs to.
C24_ChunkOf(f) == ((f - 1) \div 10) + 1

\* The files that have an entry in the list.
C24_Done == {pullRequestChangesSummary[k].changedFile : k \in 1..Len(pullRequestChangesSummary)}

\* C24: the history of the changed files is fetched ten files at a time: a
\* chunk that starts is the next run of ten files, never more than ten files
\* are being fetched, a chunk starts only when every file of the chunks before
\* it has its entry and nothing is in flight, the list returned holds exactly
\* one entry for each changed file, and no inference call is made before the
\* list is returned whole.
C24_ChunkedFanOutBeforeAnalysis ==
  /\ [](/\ Cardinality(fetching) <= 10
        /\ \A f \in fetching : C24_ChunkOf(f) = chunkIndex
        /\ \A f \in 1..changedFiles :
             C24_ChunkOf(f) < chunkIndex => (f \in C24_Done /\ f \notin fetching)
        /\ fetched = "complete" =>
             /\ Len(pullRequestChangesSummary) = changedFiles
             /\ C24_Done = 1..changedFiles
             /\ numEntries = changedFiles
        /\ (attempted # {} \/ invocations > 0) =>
             (fetched = "complete" /\ fetching = {}))
  /\ [][chunkIndex' # chunkIndex =>
          /\ fetching = {}
          /\ chunkIndex' = chunkIndex + 1
          /\ fetching' = {f \in 1..changedFiles : C24_ChunkOf(f) = chunkIndex'}]_vars

C24_Witness ==
  /\ pc = "inflight"
  /\ changedFiles = 11
  /\ chunkIndex = 2
  /\ Len(pullRequestChangesSummary) = 11
  /\ attempted = {1}

\* C25: whatever the order in which the per-file fetches end, the list returned
\* holds the entries in the order of the changed files, and each entry holds its
\* past changes in the order of the file's commit history.
C25_SummaryInChangedFileOrder ==
  fetched = "complete" =>
    \A k \in 1..Len(pullRequestChangesSummary) :
      /\ pullRequestChangesSummary[k].changedFile = k
      /\ LET past == pullRequestChangesSummary[k].pastChanges
             history == CommitHistory(pullRequestChangesSummary[k].changedFile)
         IN  /\ Len(past) = Len(history)
             /\ \A c \in 1..Len(past) : past[c].sha = history[c]

\* C31: for every maxRetries, zero and negative values included, a driver call
\* that has ended invoked the call at least once, and it ended either by
\* returning what the last attempt returned or by raising a value that is not
\* null: it never returns undefined and never raises null.
C31_DriverOutcomeTotal ==
  DriverEnded =>
    /\ invocations >= 1
    /\ hist # <<>>
    /\ outcome.kind = "returned" =>
         (outcome.response \in Responses /\ outcome.response = hist[Len(hist)])
    /\ outcome.kind = "raised" =>
         (hist[Len(hist)] \notin Responses /\ ~outcome.value.isNullish
            /\ outcome.value # NoError)

====
